---------------------------- MODULE Spec2Model ----------------------------
(***************************************************************************)
(* State-machine model of the process execution and lifecycle subsystem of *)
(* the FFmpeg tool collection (class FFmpegUtils and the tools built on    *)
(* it): the shell runner executeCommand, the argv runners                  *)
(* executeFFmpegCommand / executeFFprobeCommand, the capture session       *)
(* startCapture / stopCapture, the execute-ffmpeg-command tool, and the    *)
(* pure functions parseFFprobeOutput and sanitizeFilename.                 *)
(*                                                                         *)
(* Strings are sequences of segments (TLA+ strings of one or more          *)
(* characters); JavaScript's + and template literals are \o.  Values that  *)
(* may be null / undefined are tagged records.                             *)
(***************************************************************************)
EXTENDS Integers, Sequences, FiniteSets

\* ------------------------------------------------------------------ bounds
\* Number of runner invocations that can be in flight at the same time.
MaxInv == 1
\* Number of data events (stdout or stderr chunks) one process can emit.
MaxChunks == 2
\* Number of startCapture / stopCapture calls.
MaxCalls == 4
\* Number of pieces a command line given to the tool is made of.
MaxPieces == 3
\* Number of lines of the text given to parseFFprobeOutput.
MaxLines == 4
\* Number of characters of a file name given to sanitizeFilename.
MaxNameLen == 4
\* Number of times a file name is passed through sanitizeFilename.
MaxPasses == 2

\* --------------------------------------------------------- JavaScript values
Null == [tag |-> "null"]
Undefined == [tag |-> "undefined"]
Num(n) == [tag |-> "number", val |-> n]
Str(s) == [tag |-> "string", val |-> s]

Digit(d) == CASE d = 0 -> "0" [] d = 1 -> "1" [] d = 2 -> "2" [] d = 3 -> "3"
              [] d = 4 -> "4" [] d = 5 -> "5" [] d = 6 -> "6" [] d = 7 -> "7"
              [] d = 8 -> "8" [] d = 9 -> "9"

RECURSIVE NatToString(_)
NatToString(n) == IF n < 10 THEN <<Digit(n)>>
                  ELSE NatToString(n \div 10) \o <<Digit(n % 10)>>

\* String(v) as a template literal `${v}` computes it.
JsString(v) == CASE v.tag = "number" ->
                      IF v.val < 0 THEN <<"-">> \o NatToString(-v.val)
                      ELSE NatToString(v.val)
                 [] v.tag = "null" -> <<"null">>
                 [] v.tag = "undefined" -> <<"undefined">>
                 [] v.tag = "string" -> v.val

\* ------------------------------------------------------- the environment
\* Chunks a process writes to stdout or stderr.
Chunks == {<<"a">>, <<"b">>}
\* How a started process can end: exit(code) or death by a signal, in which
\* case Node reports code = null.
ExitCodes == {0, 1}
Terminations == {[code |-> Num(c), signal |-> Null] : c \in ExitCodes}
                \cup {[code |-> Null, signal |-> Str(<<"SIGTERM">>)]}
\* The close event that follows a failed spawn carries the negative errno.
FailedSpawnCodes == {Num(-2), Num(-13)}
\* error.message of a spawn failure for the executable exe.
SpawnErrors(exe) == {<<"spawn ", exe, " ENOENT">>, <<"spawn ", exe, " EACCES">>}
\* Command lines handed to the shell runner by direct callers.
RunnerCommands == {<<"l", "s">>}

Executable(kind) == CASE kind = "shell" -> "/bin/sh"
                      [] kind = "ffmpeg" -> "ffmpeg"
                      [] kind = "ffprobe" -> "ffprobe"
                      [] OTHER -> ""

\* ------------------------------------------------------------------- state
VARIABLES
  inv,               \* inv[i]: the closure of runner invocation i (promise,
                     \* process, buffers, timer)
  captureProcess,    \* FFmpegUtils.captureProcess: null or a process handle
  captureOutputFile, \* FFmpegUtils.captureOutputFile: null or a string
  children,          \* the processes startCapture has spawned, by handle
  history,           \* the startCapture / stopCapture calls made so far
  tool,              \* the execute-ffmpeg-command call in progress
  arrivals,          \* arrivals[i]: the data events of invocation i that
                     \* were recorded, in the order they arrived
  probe,             \* a call of parseFFprobeOutput: its input and result
  upload,            \* a file name and the results of sanitizing it again
                     \* and again
  twin,              \* one call of executeFFmpegCommand and one of
                     \* executeFFprobeCommand, given the same events
  call               \* a call of one of the argv tools (trim-video,
                     \* analyze-media, extract-bitstream, batch-process)

runnerVars == <<inv, arrivals>>
captureVars == <<captureProcess, captureOutputFile, children, history>>
toolVars == <<tool>>
utilVars == <<probe, upload>>
opVars == <<twin, call>>
vars == <<inv, captureProcess, captureOutputFile, children, history, tool,
          arrivals, probe, upload, twin, call>>

InvIds == 1..MaxInv

\* The way a process that has not ended yet has ended.
NoTerm == [code |-> Undefined, signal |-> Undefined]

Pending == [success |-> FALSE, output |-> <<>>, error |-> Undefined]

NoInvocation ==
  [kind |-> "none", cmd |-> <<>>, proc |-> "none", stdout |-> <<>>,
   stderr |-> <<>>, timer |-> "none", killed |-> FALSE,
   settled |-> FALSE, result |-> Pending, spawned |-> FALSE, term |-> NoTerm,
   resolveCalls |-> 0, firstEvent |-> "none", firstResult |-> Pending]

\* new Promise((resolve) => { spawn / exec ...; setTimeout(...) })
NewInvocation(kind, cmd, spawned) ==
  [NoInvocation EXCEPT !.kind = kind, !.cmd = cmd, !.spawned = spawned,
                       !.proc = IF spawned THEN "running" ELSE "spawnfail",
                       !.timer = "armed"]

\* ----------------------------------------------------------- the promise
\* resolve(res): the first call settles the promise, later calls are ignored.
ResolveLastWins(r, res) == [r EXCEPT !.settled = TRUE, !.result = res]

Resolve(r, res) == IF r.settled THEN r
                   ELSE [r EXCEPT !.settled = TRUE, !.result = res]

\* History of the resolve calls of an invocation: how many there were, and
\* which event made the first one, with what argument.
Logged(r, ev, res) ==
  IF r.resolveCalls = 0
  THEN [r EXCEPT !.resolveCalls = 1, !.firstEvent = ev, !.firstResult = res]
  ELSE [r EXCEPT !.resolveCalls = @ + 1]

\* proc.kill()
Kill(r) == [r EXCEPT !.killed = TRUE]

\* ------------------------------------------------------ executeCommand
\* What child_process.exec passes as `error` to its callback: null when the
\* shell exited with code 0 and no signal, an Error otherwise.
JsError(message) == [tag |-> "Error", message |-> message]

ExecError(cmd, term, stderr) ==
  IF term.code = Num(0) /\ term.signal = Null THEN Null
  ELSE JsError(<<"Command failed: ">> \o cmd \o <<"\n">> \o stderr)

\* (error, stdout, stderr) => { ... } : the exec callback of executeCommand.
ExecCallbackStderrFirst(error, stdout, stderr) ==
  LET output == stderr \o stdout IN
  IF error # Null
  THEN [success |-> FALSE, output |-> output, error |-> Str(error.message)]
  ELSE [success |-> TRUE, output |-> output, error |-> Undefined]

ExecCallback(error, stdout, stderr) ==
  LET output == stdout \o stderr IN
  IF error # Null
  THEN [success |-> FALSE, output |-> output, error |-> Str(error.message)]
  ELSE [success |-> TRUE, output |-> output, error |-> Undefined]

ShellTimeoutResult ==
  [success |-> FALSE, output |-> <<>>, error |-> Str(<<"Command timed out">>)]

\* ------------------------------------------------ executeFFmpegCommand
\* proc.stdout.on('data', (data) => { stdout += data.toString() }), and the
\* same for stderr: the chunk is appended to the buffer of its stream.
OnDataOverwrite(buffer, data) == data

OnData(buffer, data) == buffer \o data

FFmpegOnCloseStderrFirst(stdout, stderr, code) ==
  LET output == stderr \o stdout IN
  IF code = Num(0)
  THEN [success |-> TRUE, output |-> output, error |-> Undefined]
  ELSE [success |-> FALSE, output |-> output,
        error |-> Str(<<"Process exited with code ">> \o JsString(code))]

\* proc.on('close', (code) => { ... })
FFmpegOnClose(stdout, stderr, code) ==
  LET output == stdout \o stderr IN
  IF code = Num(0)
  THEN [success |-> TRUE, output |-> output, error |-> Undefined]
  ELSE [success |-> FALSE, output |-> output,
        error |-> Str(<<"Process exited with code ">> \o JsString(code))]

\* proc.on('error', (error) => { ... })
FFmpegOnErrorAsExitCode(error) ==
  [success |-> FALSE, output |-> <<>>,
   error |-> Str(<<"Process exited with code ">> \o JsString(Num(-2)))]

FFmpegOnError(error) ==
  [success |-> FALSE, output |-> <<>>, error |-> Str(error.message)]

FFmpegTimeoutResult ==
  [success |-> FALSE, output |-> <<>>, error |-> Str(<<"Command timed out">>)]

\* ----------------------------------------------- executeFFprobeCommand
FFprobeOnCloseNoError(stdout, stderr, code) ==
  [success |-> code = Num(0), output |-> stdout \o stderr, error |-> Undefined]

FFprobeOnClose(stdout, stderr, code) ==
  LET output == stdout \o stderr IN
  IF code = Num(0)
  THEN [success |-> TRUE, output |-> output, error |-> Undefined]
  ELSE [success |-> FALSE, output |-> output,
        error |-> Str(<<"Process exited with code ">> \o JsString(code))]

FFprobeOnError(error) ==
  [success |-> FALSE, output |-> <<>>, error |-> Str(error.message)]

FFprobeTimeoutResult ==
  [success |-> FALSE, output |-> <<>>, error |-> Str(<<"Command timed out">>)]

\* ------------------------------------------------- handlers by runner
OnCloseResult(r, term) ==
  CASE r.kind = "shell" ->
         ExecCallback(ExecError(r.cmd, term, r.stderr), r.stdout, r.stderr)
    [] r.kind = "ffmpeg" -> FFmpegOnClose(r.stdout, r.stderr, term.code)
    [] r.kind = "ffprobe" -> FFprobeOnClose(r.stdout, r.stderr, term.code)

OnErrorResult(r, error) ==
  CASE r.kind = "shell" -> ExecCallback(error, <<>>, <<>>)
    [] r.kind = "ffmpeg" -> FFmpegOnError(error)
    [] r.kind = "ffprobe" -> FFprobeOnError(error)

TimeoutResult(r) ==
  CASE r.kind = "shell" -> ShellTimeoutResult
    [] r.kind = "ffmpeg" -> FFmpegTimeoutResult
    [] r.kind = "ffprobe" -> FFprobeTimeoutResult

\* setTimeout(() => { proc.kill(); resolve({...}) }, 600000)
OnTimeoutNoResolve(r) == Kill(r)

OnTimeout(r) ==
  Logged(Resolve(Kill(r), TimeoutResult(r)), "timer", TimeoutResult(r))

\* ------------------------------------- what a callback does to a closure
\* The 'data' handlers.
AfterStdout(r, chunk) == [r EXCEPT !.stdout = OnData(@, chunk)]
AfterStderr(r, chunk) == [r EXCEPT !.stderr = OnData(@, chunk)]

\* The 'close' handler (for the shell runner: exec's callback) of a process
\* that was spawned.
AfterClose(r, term) ==
  LET res == OnCloseResult(r, term) IN
  [Logged(Resolve(r, res), "close", res) EXCEPT !.proc = "closed",
                                                !.term = term]

\* The 'error' handler (for the shell runner: exec's callback) of a process
\* that could not be spawned.
AfterError(r, message) ==
  LET res == OnErrorResult(r, JsError(message)) IN
  [Logged(Resolve(r, res), "error", res) EXCEPT !.proc = "errored"]

\* The 'close' handler after the error event of a failed spawn.  exec has
\* already called its callback and does not call it again.
AfterCloseOfFailedSpawn(r, code) ==
  IF r.kind = "shell" THEN [r EXCEPT !.proc = "closed"]
  ELSE LET res == OnCloseResult(r, [code |-> code, signal |-> Null]) IN
       [Logged(Resolve(r, res), "close", res) EXCEPT !.proc = "closed"]

\* The callback of setTimeout.
AfterTimeout(r) == [OnTimeout(r) EXCEPT !.timer = "fired"]

\* An invocation all of whose callbacks have run: nothing can happen to it
\* any more, and its slot can hold a new invocation.
Finished(r) == r.kind = "none" \/ (r.proc = "closed" /\ r.timer = "fired")

\* Invocations share no state, so which slot holds one does not matter: a
\* new invocation takes the lowest slot that is free.
IsFreeSlot(i) ==
  Finished(inv[i]) /\ \A j \in 1..(i - 1) : ~Finished(inv[j])

\* ------------------------------------------------------- runner actions
\* The runners, up to the return of the promise: the process is spawned (or
\* fails to) and the timer is armed.
executeCommand(i, command, spawned) ==
  /\ IsFreeSlot(i)
  /\ inv' = [inv EXCEPT ![i] = NewInvocation("shell", command, spawned)]

executeFFmpegCommand(i, spawned) ==
  /\ IsFreeSlot(i)
  /\ inv' = [inv EXCEPT ![i] = NewInvocation("ffmpeg", <<>>, spawned)]

executeFFprobeCommand(i, spawned) ==
  /\ IsFreeSlot(i)
  /\ inv' = [inv EXCEPT ![i] = NewInvocation("ffprobe", <<>>, spawned)]

\* A caller other than the tools calls a runner.
CallRunner(i) ==
  /\ \/ \E c \in RunnerCommands, ok \in BOOLEAN : executeCommand(i, c, ok)
     \/ \E ok \in BOOLEAN : executeFFmpegCommand(i, ok)
     \/ \E ok \in BOOLEAN : executeFFprobeCommand(i, ok)
  /\ arrivals' = [arrivals EXCEPT ![i] = <<>>]
  /\ UNCHANGED <<captureVars, toolVars, utilVars, opVars>>

\* proc.stdout.on('data', ...): stdout += data.toString()
StdoutData(i, chunk) ==
  /\ inv[i].proc = "running"
  /\ Len(inv[i].stdout) + Len(inv[i].stderr) < MaxChunks
  /\ inv' = [inv EXCEPT ![i] = AfterStdout(@, chunk)]
  /\ UNCHANGED <<captureVars, toolVars, utilVars, opVars>>

\* proc.stderr.on('data', ...): stderr += data.toString()
StderrData(i, chunk) ==
  /\ inv[i].proc = "running"
  /\ Len(inv[i].stdout) + Len(inv[i].stderr) < MaxChunks
  /\ inv' = [inv EXCEPT ![i] = AfterStderr(@, chunk)]
  /\ UNCHANGED <<captureVars, toolVars, utilVars, opVars>>

\* The process ends and its streams are closed: the close event (for the
\* shell runner: exec's callback).
ProcessClose(i, term) ==
  /\ inv[i].proc = "running"
  /\ inv' = [inv EXCEPT ![i] = AfterClose(@, term)]
  /\ UNCHANGED <<arrivals, captureVars, toolVars, utilVars, opVars>>

\* The process could not be started: the error event, emitted on the next
\* tick after spawn (for the shell runner: exec's callback with the error).
SpawnError(i, message) ==
  /\ inv[i].proc = "spawnfail"
  /\ inv' = [inv EXCEPT ![i] = AfterError(@, message)]
  /\ UNCHANGED <<arrivals, captureVars, toolVars, utilVars, opVars>>

\* The close event that follows the error event of a failed spawn.  exec
\* has already called its callback and does not call it again.
CloseAfterError(i, code) ==
  /\ inv[i].proc = "errored"
  /\ inv' = [inv EXCEPT ![i] = AfterCloseOfFailedSpawn(@, code)]
  /\ UNCHANGED <<arrivals, captureVars, toolVars, utilVars, opVars>>

\* The 600 s timer fires.  Timers run after the next-tick queue, so never
\* before the error event of a failed spawn.
TimerFire(i) ==
  /\ inv[i].timer = "armed"
  /\ inv[i].proc # "spawnfail"
  /\ inv' = [inv EXCEPT ![i] = AfterTimeout(@)]
  /\ UNCHANGED <<arrivals, captureVars, toolVars, utilVars, opVars>>

\* What the process and the timer of invocation i can do.
RunnerEvent(i) ==
  \/ \E ch \in Chunks : StdoutData(i, ch) /\ UNCHANGED arrivals
  \/ \E ch \in Chunks : StderrData(i, ch) /\ UNCHANGED arrivals
  \/ \E t \in Terminations : ProcessClose(i, t)
  \/ \E m \in SpawnErrors(Executable(inv[i].kind)) : SpawnError(i, m)
  \/ \E c \in FailedSpawnCodes : CloseAfterError(i, c)
  \/ TimerFire(i)

\* The same, with every data event recorded in the order of arrival.
Arrive(i, stream, chunk) ==
  arrivals' = [arrivals EXCEPT
                 ![i] = Append(@, [stream |-> stream, data |-> chunk])]

RecordedEvent(i) ==
  \/ \E ch \in Chunks : StdoutData(i, ch) /\ Arrive(i, "stdout", ch)
  \/ \E ch \in Chunks : StderrData(i, ch) /\ Arrive(i, "stderr", ch)
  \/ \E t \in Terminations : ProcessClose(i, t)
  \/ \E m \in SpawnErrors(Executable(inv[i].kind)) : SpawnError(i, m)
  \/ \E c \in FailedSpawnCodes : CloseAfterError(i, c)
  \/ TimerFire(i)

\* -------------------------------------------------------- capture session
\* if (v) ... / v || w : JavaScript's truthiness of the values used here.
Truthy(v) == v # Null /\ v # Undefined /\ v # Str(<<>>)

Handle(pid) == [tag |-> "ChildProcess", pid |-> pid]

\* handle.kill(): a termination signal is sent to the process of the handle.
KillChild(procs, handle) == [procs EXCEPT ![handle.pid].killed = TRUE]

\* exec(command): a new background process; its handle is its index.
ExecChild(procs, command) ==
  Append(procs, [command |-> command, killed |-> FALSE, exited |-> FALSE])

startCaptureKeepsFile(command, outputFile) ==
  /\ captureOutputFile' =
       IF Truthy(captureProcess) THEN captureOutputFile ELSE Str(outputFile)
  /\ captureProcess' = Handle(Len(children) + 1)
  /\ children' =
       ExecChild(IF Truthy(captureProcess)
                 THEN KillChild(children, captureProcess) ELSE children,
                 command)

startCaptureNoKill(command, outputFile) ==
  /\ captureOutputFile' = Str(outputFile)
  /\ captureProcess' = Handle(Len(children) + 1)
  /\ children' = ExecChild(children, command)

\* static startCapture(command, outputFile): void
startCapture(command, outputFile) ==
  /\ captureOutputFile' = Str(outputFile)
  /\ captureProcess' = Handle(Len(children) + 1)
  /\ children' =
       ExecChild(IF Truthy(captureProcess)
                 THEN KillChild(children, captureProcess) ELSE children,
                 command)

stopCaptureKeepsHandle(ret) ==
  IF Truthy(captureProcess)
  THEN /\ children' = KillChild(children, captureProcess)
       /\ captureProcess' = captureProcess
       /\ captureOutputFile' = Null
       /\ ret = [status |-> "stopped",
                 filename |-> IF Truthy(captureOutputFile)
                              THEN captureOutputFile ELSE Undefined]
  ELSE /\ ret = [status |-> "not_running", filename |-> Undefined]
       /\ UNCHANGED <<captureProcess, captureOutputFile, children>>

stopCaptureKeepsFile(ret) ==
  IF Truthy(captureProcess)
  THEN /\ children' = KillChild(children, captureProcess)
       /\ captureProcess' = Null
       /\ captureOutputFile' = captureOutputFile
       /\ ret = [status |-> "stopped",
                 filename |-> IF Truthy(captureOutputFile)
                              THEN captureOutputFile ELSE Undefined]
  ELSE /\ ret = [status |-> "not_running", filename |-> Undefined]
       /\ UNCHANGED <<captureProcess, captureOutputFile, children>>

\* static stopCapture(): { status: string; filename?: string }, returning ret
stopCapture(ret) ==
  IF Truthy(captureProcess)
  THEN /\ children' = KillChild(children, captureProcess)
       /\ captureProcess' = Null
       /\ captureOutputFile' = Null
       /\ ret = [status |-> "stopped",
                 filename |-> IF Truthy(captureOutputFile)
                              THEN captureOutputFile ELSE Undefined]
  ELSE /\ ret = [status |-> "not_running", filename |-> Undefined]
       /\ UNCHANGED <<captureProcess, captureOutputFile, children>>

\* Inputs of the capture session.
CaptureCommands == {<<"ffmpeg -f x11grab">>, <<"ffmpeg -f avfoundation">>}
OutputFiles == {<<>>, <<"a.mp4">>, <<"b.mp4">>}
StopReturns ==
  [status : {"stopped", "not_running"},
   filename : {Undefined} \cup {Str(f) : f \in OutputFiles}]

\* A caller calls startCapture; the call is recorded in the history.
Start(command, outputFile) ==
  /\ Len(history) < MaxCalls
  /\ startCapture(command, outputFile)
  /\ history' = Append(history,
                       [op |-> "start", wasRunning |-> captureProcess # Null,
                        command |-> command, outputFile |-> outputFile,
                        pid |-> Len(children) + 1])
  /\ UNCHANGED <<runnerVars, toolVars, utilVars, opVars>>

\* A caller calls stopCapture; the call and its return value are recorded.
Stop ==
  /\ Len(history) < MaxCalls
  /\ \E ret \in StopReturns :
       /\ stopCapture(ret)
       /\ history' = Append(history,
                            [op |-> "stop", wasRunning |-> captureProcess # Null,
                             hadExited |->
                               IF captureProcess # Null
                               THEN children[captureProcess.pid].exited
                               ELSE FALSE,
                             ret |-> ret])
  /\ UNCHANGED <<runnerVars, toolVars, utilVars, opVars>>

\* A capture process ends, by itself or after a signal.
CaptureExit(pid) ==
  /\ ~children[pid].exited
  /\ children' = [children EXCEPT ![pid].exited = TRUE]
  /\ UNCHANGED <<captureProcess, captureOutputFile, history, runnerVars,
                 toolVars, utilVars, opVars>>

\* ------------------------------------------- execute-ffmpeg-command tool
\* Command lines are sequences of characters.
WhiteSpace == {" ", "\t", "\n"}
FFMPEG == <<"f", "f", "m", "p", "e", "g">>
FFPROBE == <<"f", "f", "p", "r", "o", "b", "e">>

RECURSIVE TrimStart(_)
TrimStart(s) == IF s # <<>> /\ Head(s) \in WhiteSpace THEN TrimStart(Tail(s))
                ELSE s

RECURSIVE TrimEnd(_)
TrimEnd(s) == IF s # <<>> /\ s[Len(s)] \in WhiteSpace
              THEN TrimEnd(SubSeq(s, 1, Len(s) - 1))
              ELSE s

\* s.trim()
Trim(s) == TrimEnd(TrimStart(s))

\* s.startsWith(prefix)
StartsWith(s, prefix) ==
  Len(s) >= Len(prefix) /\ SubSeq(s, 1, Len(prefix)) = prefix

\* s.includes(part)
Includes(s, part) ==
  \E k \in 0..(Len(s) - Len(part)) : SubSeq(s, k + 1, k + Len(part)) = part

\* The allow-list test of the tool's execute(), negated:
\* !(!trim().startsWith('ffmpeg') && !trim().startsWith('ffprobe'))
IsAllowedCommandIncludes(command) ==
  Includes(Trim(command), FFMPEG) \/ Includes(Trim(command), FFPROBE)

IsAllowedCommand(command) ==
  ~(~StartsWith(Trim(command), FFMPEG) /\ ~StartsWith(Trim(command), FFPROBE))

\* command.replace(/^ffmpeg\s/, 'ffmpeg -y ')
ModifiedCommand(command) ==
  IF StartsWith(command, FFMPEG) /\ Len(command) > Len(FFMPEG)
     /\ command[Len(FFMPEG) + 1] \in WhiteSpace
  THEN FFMPEG \o <<" ", "-", "y", " ">>
       \o SubSeq(command, Len(FFMPEG) + 2, Len(command))
  ELSE command

\* Inputs of the tool: the command lines made of at most MaxPieces pieces.
Pieces == {FFMPEG, FFPROBE, <<" ">>, <<"x">>}

RECURSIVE Concats(_)
Concats(n) == IF n = 0 THEN {<<>>}
              ELSE Concats(n - 1)
                   \cup {p \o c : p \in Pieces, c \in Concats(n - 1)}

ToolCommands == Concats(MaxPieces)
ToolOutputFiles == {Undefined, Str(<<"o.mp4">>)}

NoEnvelope ==
  [success |-> FALSE, message |-> "", output |-> Undefined,
   outputFile |-> Undefined, error |-> Undefined]

IdleTool ==
  [phase |-> "idle", command |-> <<>>, outputFile |-> Undefined, slot |-> 0,
   ret |-> NoEnvelope]

\* The envelope returned for a command that is not allowed.
RejectedEnvelope ==
  [success |-> FALSE,
   message |-> "Only ffmpeg and ffprobe commands are allowed",
   output |-> Undefined, outputFile |-> Undefined,
   error |-> Str(<<"Invalid command">>)]

\* The envelope built from the result of executeCommand.
ResultEnvelope(result, outputFile) ==
  [success |-> result.success,
   message |-> IF result.success THEN "Command executed successfully"
               ELSE "Command failed",
   output |-> Str(result.output), outputFile |-> outputFile,
   error |-> result.error]

\* execute() of executeFFmpegCommandTool, up to its await: the command is
\* rejected, or executeCommand is called with the modified command.
ToolExecute(command, outputFile, i, spawned) ==
  /\ tool.phase = "idle"
  /\ IF ~IsAllowedCommand(command)
     THEN /\ tool' = [IdleTool EXCEPT !.phase = "returned",
                                      !.command = command,
                                      !.outputFile = outputFile,
                                      !.ret = RejectedEnvelope]
          /\ UNCHANGED inv
     ELSE /\ executeCommand(i, ModifiedCommand(command), spawned)
          /\ tool' = [IdleTool EXCEPT !.phase = "awaiting",
                                      !.command = command,
                                      !.outputFile = outputFile,
                                      !.slot = i]
  /\ UNCHANGED <<captureVars, arrivals, utilVars, opVars>>

\* execute() after its await: the promise has resolved.
ToolReturn ==
  /\ tool.phase = "awaiting"
  /\ inv[tool.slot].settled
  /\ tool' = [tool EXCEPT
                !.phase = "returned",
                !.ret = ResultEnvelope(inv[tool.slot].result, tool.outputFile)]
  /\ UNCHANGED <<runnerVars, captureVars, utilVars, opVars>>

\* ------------------------------------------------------ parseFFprobeOutput
FORMAT_MARKER == <<"[", "F", "O", "R", "M", "A", "T", "]">>
STREAM_MARKER == <<"[", "S", "T", "R", "E", "A", "M", "]">>

\* s.split(sep), sep one character: the pieces of s between the separators.
RECURSIVE Split(_, _)
Split(s, sep) ==
  IF \A k \in 1..Len(s) : s[k] # sep THEN <<s>>
  ELSE LET k == CHOOSE k \in 1..Len(s) :
                  s[k] = sep /\ \A j \in 1..(k - 1) : s[j] # sep
       IN <<SubSeq(s, 1, k - 1)>> \o Split(SubSeq(s, k + 1, Len(s)), sep)

\* s.split(sep, limit): the first `limit` pieces of s.split(sep).
SplitLimit(s, sep, limit) ==
  LET pieces == Split(s, sep) IN
  SubSeq(pieces, 1, IF Len(pieces) < limit THEN Len(pieces) ELSE limit)

\* obj[key] = value.  An object is the sequence of its properties in the
\* order they were created.
SetProperty(obj, key, value) ==
  IF \E k \in 1..Len(obj) : obj[k].key = key
  THEN [k \in 1..Len(obj) |->
          IF obj[k].key = key THEN [key |-> key, value |-> value] ELSE obj[k]]
  ELSE Append(obj, [key |-> key, value |-> value])

\* The locals of parseFFprobeOutput before the loop.  thrown: a statement
\* of the try block has thrown.
ParseStart ==
  [result |-> [format |-> <<>>, streams |-> <<>>], currentStream |-> <<>>,
   inStream |-> FALSE, thrown |-> FALSE]

\* if (Object.keys(currentStream).length > 0) result.streams.push(currentStream)
PushCurrentStream(st) ==
  IF Len(st.currentStream) > 0
  THEN [st EXCEPT !.result.streams = Append(@, st.currentStream)]
  ELSE st

\* line.includes('=')
IsKeyValueLineAlways(line) == TRUE

IsKeyValueLine(line) == Includes(line, <<"=">>)

\* const [key, value] = line.split('=', 2); section[key.trim()] = value.trim()
\* value is undefined when split yields one piece, and value.trim() then
\* throws a TypeError.
KeyValue(st, line) ==
  LET parts == SplitLimit(line, "=", 2)
      key == parts[1]
      value == IF Len(parts) >= 2 THEN Str(parts[2]) ELSE Undefined
  IN IF value = Undefined THEN [st EXCEPT !.thrown = TRUE]
     ELSE IF st.inStream
     THEN [st EXCEPT !.currentStream =
                        SetProperty(@, Trim(key), Trim(value.val))]
     ELSE [st EXCEPT !.result.format =
                        SetProperty(@, Trim(key), Trim(value.val))]

\* line.startsWith('[FORMAT]'), line.startsWith('[STREAM]')
IsMarkerEqual(line, marker) == line = marker

IsMarker(line, marker) == StartsWith(line, marker)

\* The body of the loop, for one line.
ParseLine(st, line) ==
  IF st.thrown THEN st
  ELSE IF IsMarker(line, FORMAT_MARKER) THEN [st EXCEPT !.inStream = FALSE]
  ELSE IF IsMarker(line, STREAM_MARKER)
  THEN [PushCurrentStream(st) EXCEPT !.currentStream = <<>>,
                                     !.inStream = TRUE]
  ELSE IF IsKeyValueLine(line) THEN KeyValue(st, line)
  ELSE st

\* for (const line of lines) { ... }
RECURSIVE ParseLines(_, _)
ParseLines(st, lines) ==
  IF lines = <<>> THEN st
  ELSE ParseLines(ParseLine(st, Head(lines)), Tail(lines))

ParseError == [error |-> <<"Failed to parse ffprobe output">>]

\* try { ...; return result } catch (error) { return { error: ... } }
parseFFprobeOutput(output) ==
  LET st == ParseLines(ParseStart, Split(output, "\n")) IN
  IF st.thrown THEN ParseError ELSE PushCurrentStream(st).result

\* The lines the texts given to the parser are made of: the two markers,
\* key=value lines (one whose value holds a '=', one with blanks and an
\* empty key and value), a line that is neither, the empty line, and a
\* line that begins with a marker without being one.
ProbeLines ==
  {FORMAT_MARKER, STREAM_MARKER,
   <<"a", "=", "1">>, <<"c", "=", "2">>, <<"b", "=", "2", "=", "3">>,
   <<" ", "=", " ">>, <<"x">>, <<>>, STREAM_MARKER \o <<"x">>}

RECURSIVE LineSeqs(_)
LineSeqs(n) == IF n = 0 THEN {<<>>}
               ELSE LineSeqs(n - 1)
                    \cup {<<l>> \o ls : l \in ProbeLines,
                                       ls \in LineSeqs(n - 1)}

\* lines.join('\n')
RECURSIVE Join(_)
Join(lines) == IF lines = <<>> THEN <<>>
               ELSE IF Len(lines) = 1 THEN lines[1]
               ELSE lines[1] \o <<"\n">> \o Join(Tail(lines))

\* The texts of at most n lines.
ProbeTexts(n) == {Join(ls) : ls \in LineSeqs(n)}

NoProbe == [output |-> <<>>, called |-> FALSE, result |-> Null]

\* A caller passes the text to the parser.
ParseProbe ==
  /\ ~probe.called
  /\ probe' = [probe EXCEPT !.called = TRUE,
                            !.result = parseFFprobeOutput(probe.output)]
  /\ UNCHANGED <<runnerVars, captureVars, toolVars, upload, opVars>>

\* ---------------------------------------------------------- sanitizeFilename
LowerCase ==
  <<"a", "b", "c", "d", "e", "f", "g", "h", "i", "j", "k", "l", "m",
    "n", "o", "p", "q", "r", "s", "t", "u", "v", "w", "x", "y", "z">>
UpperCase ==
  <<"A", "B", "C", "D", "E", "F", "G", "H", "I", "J", "K", "L", "M",
    "N", "O", "P", "Q", "R", "S", "T", "U", "V", "W", "X", "Y", "Z">>
Digits == {"0", "1", "2", "3", "4", "5", "6", "7", "8", "9"}

\* The characters of the class [a-zA-Z0-9.-]
IsValidChar(c) ==
  \/ \E k \in 1..Len(LowerCase) : c = LowerCase[k] \/ c = UpperCase[k]
  \/ c \in Digits \cup {".", "-"}

\* .replace(/[^a-zA-Z0-9.-]/g, '_')
ReplaceInvalid(s) ==
  [k \in 1..Len(s) |-> IF IsValidChar(s[k]) THEN s[k] ELSE "_"]

\* .toLowerCase()
ToLowerCase(s) ==
  [k \in 1..Len(s) |->
     IF \E j \in 1..Len(UpperCase) : s[k] = UpperCase[j]
     THEN LowerCase[CHOOSE j \in 1..Len(UpperCase) : s[k] = UpperCase[j]]
     ELSE s[k]]

\* .replace(/_{2,}/g, '_'): every run of underscores becomes one.
RECURSIVE CollapseUnderscores(_)
CollapseUnderscores(s) ==
  IF Len(s) < 2 THEN s
  ELSE IF s[1] = "_" /\ s[2] = "_" THEN CollapseUnderscores(Tail(s))
  ELSE <<s[1]>> \o CollapseUnderscores(Tail(s))

\* .replace(/^_|_$/g, ''): an underscore at the start is dropped, and then
\* an underscore at the end.
StripEnds(s) ==
  LET t == IF s # <<>> /\ s[1] = "_" THEN Tail(s) ELSE s IN
  IF t # <<>> /\ t[Len(t)] = "_" THEN SubSeq(t, 1, Len(t) - 1) ELSE t

DefaultName ==
  <<"u", "p", "l", "o", "a", "d", "e", "d", "_", "f", "i", "l", "e">>

sanitizeFilenameStripFirst(filename) ==
  LET sanitized ==
        CollapseUnderscores(StripEnds(ToLowerCase(ReplaceInvalid(filename))))
  IN IF sanitized # <<>> THEN sanitized ELSE DefaultName

\* return sanitized || 'uploaded_file'
sanitizeFilename(filename) ==
  LET sanitized ==
        StripEnds(CollapseUnderscores(ToLowerCase(ReplaceInvalid(filename))))
  IN IF sanitized # <<>> THEN sanitized ELSE DefaultName

\* The characters file names are made of: letters of both cases, a digit,
\* the dot, the hyphen, the underscore, and a character outside the class.
NameChars == {"a", "B", "1", ".", "-", "_", "!"}

RECURSIVE Names(_)
Names(n) == IF n = 0 THEN {<<>>}
            ELSE Names(n - 1)
                 \cup {<<c>> \o f : c \in NameChars, f \in Names(n - 1)}

NoUpload == [filename |-> <<>>, sanitized |-> <<>>]

\* The file name, or the last result, is passed through sanitizeFilename.
SanitizeUpload ==
  /\ Len(upload.sanitized) < MaxPasses
  /\ LET last == IF upload.sanitized = <<>> THEN upload.filename
                 ELSE upload.sanitized[Len(upload.sanitized)]
     IN upload' = [upload EXCEPT
                     !.sanitized = Append(@, sanitizeFilename(last))]
  /\ UNCHANGED <<runnerVars, captureVars, toolVars, probe, opVars>>

\* ------------------------------------ the two argv runners side by side
\* private static uploadDir
uploadDir == <<"./uploads">>
\* The current directory of the server process.
ProcessCwd == <<".">>

\* const cwd = workingDir || this.uploadDir;  spawn('ffmpeg', args, { cwd, ... })
FFmpegSpawnOptions(workingDir) ==
  [cwd |-> IF Truthy(workingDir) THEN workingDir ELSE Str(uploadDir)]

\* spawn('ffprobe', args, { stdio: [...] }): no cwd among the options
FFprobeSpawnOptions == [cwd |-> Undefined]

\* The directory child_process.spawn starts the process in: options.cwd, and
\* the directory of the parent when there is none.
SpawnDirectory(options) ==
  IF options.cwd = Undefined THEN Str(ProcessCwd) ELSE options.cwd

\* The spawn call of a runner: executable, argument vector, directory.
SpawnCall(kind, args, options) ==
  [file |-> Executable(kind), args |-> args, dir |-> SpawnDirectory(options)]

\* Argument vectors and working directories callers pass.
ArgVectors == {<<"-version">>, <<"-i", "a.mp4", "b.mp4">>}
WorkingDirs == {Undefined, Str(<<>>), Str(<<"/work">>)}

NoTwin ==
  [called |-> FALSE, ffmpeg |-> NoInvocation, ffprobe |-> NoInvocation,
   ffmpegSpawn |-> SpawnCall("none", <<>>, [cwd |-> Undefined]),
   ffprobeSpawn |-> SpawnCall("none", <<>>, [cwd |-> Undefined])]

\* executeFFmpegCommand(args, workingDir) and executeFFprobeCommand(args):
\* the latter has no workingDir parameter to pass the directory in.
TwinCall(args, workingDir, spawned) ==
  /\ ~twin.called
  /\ twin' = [called |-> TRUE,
              ffmpeg |-> NewInvocation("ffmpeg", <<>>, spawned),
              ffprobe |-> NewInvocation("ffprobe", <<>>, spawned),
              ffmpegSpawn |->
                SpawnCall("ffmpeg", args, FFmpegSpawnOptions(workingDir)),
              ffprobeSpawn |-> SpawnCall("ffprobe", args, FFprobeSpawnOptions)]
  /\ UNCHANGED <<runnerVars, captureVars, toolVars, utilVars, call>>

\* The same event is delivered to both processes (the error event with the
\* message of the same errno, which names the executable).
TwinStep(a, b) ==
  /\ twin' = [twin EXCEPT !.ffmpeg = a, !.ffprobe = b]
  /\ UNCHANGED <<runnerVars, captureVars, toolVars, utilVars, call>>

TwinData ==
  /\ twin.ffmpeg.proc = "running"
  /\ Len(twin.ffmpeg.stdout) + Len(twin.ffmpeg.stderr) < MaxChunks
  /\ \E ch \in Chunks :
       \/ TwinStep(AfterStdout(twin.ffmpeg, ch), AfterStdout(twin.ffprobe, ch))
       \/ TwinStep(AfterStderr(twin.ffmpeg, ch), AfterStderr(twin.ffprobe, ch))

TwinClose ==
  /\ twin.ffmpeg.proc = "running"
  /\ \E t \in Terminations :
       TwinStep(AfterClose(twin.ffmpeg, t), AfterClose(twin.ffprobe, t))

TwinError ==
  /\ twin.ffmpeg.proc = "spawnfail"
  /\ \E m \in SpawnErrors("ffmpeg"), n \in SpawnErrors("ffprobe") :
       /\ m[3] = n[3]
       /\ TwinStep(AfterError(twin.ffmpeg, m), AfterError(twin.ffprobe, n))

TwinCloseOfFailedSpawn ==
  /\ twin.ffmpeg.proc = "errored"
  /\ \E c \in FailedSpawnCodes :
       TwinStep(AfterCloseOfFailedSpawn(twin.ffmpeg, c),
                AfterCloseOfFailedSpawn(twin.ffprobe, c))

TwinTimer ==
  /\ twin.ffmpeg.timer = "armed"
  /\ twin.ffmpeg.proc # "spawnfail"
  /\ TwinStep(AfterTimeout(twin.ffmpeg), AfterTimeout(twin.ffprobe))

\* ----------------------------------------------------- the argv tools
\* Bounds: the number of files of a batch, and the number of chunks a
\* process started by a tool writes.
MaxFiles == 2
MaxOutput == 1

\* The chunk such a process writes.
OpChunk == <<"k", "=", "v">>

\* An element of an argument vector: the pieces of a template literal; a
\* plain string is one piece.
Lit(s) == <<s>>

\* File names callers pass; the second contains a NUL character.
NulName == "x<NUL>.mp4"
OpFilenames == {"a.mp4", NulName}
StreamTypes == {"video", "audio", "subtitle", "data"}
Operations == {"convert", "resize", "rotate"}
FileLists(n) == UNION {[1..k -> OpFilenames] : k \in 0..n}

\* child_process.spawn throws a TypeError, before any process is started,
\* when an argument contains a NUL character.
SpawnThrows(args) ==
  \E k \in 1..Len(args) : \E j \in 1..Len(args[k]) : args[k][j] = NulName

NoCall ==
  [tool |-> "none", phase |-> "idle", context |-> Null, runs |-> <<>>,
   spawns |-> <<>>, results |-> <<>>, outputFilename |-> <<>>,
   threw |-> FALSE, ret |-> Null]

\* The message of the failure envelope of each tool.
FailureMessage(toolId) ==
  CASE toolId = "trim-video" -> "Failed to trim video"
    [] toolId = "analyze-media" -> "Failed to analyze media"
    [] toolId = "batch-process" -> "Failed to process batch"
    [] toolId = "extract-bitstream" -> "Failed to extract bitstream"
    [] OTHER -> ""

\* return <envelope>
Return(c, envelope) == [c EXCEPT !.phase = "returned", !.ret = envelope]

\* catch (error) { return { success: false, message, error: ... } }
Catch(c, error) ==
  Return([c EXCEPT !.threw = TRUE],
         [success |-> FALSE, message |-> FailureMessage(c.tool),
          error |-> IF error.tag = "Error" THEN Str(error.message)
                    ELSE Str(<<"Unknown error">>)])

\* await FFmpegUtils.executeFFmpegCommand(args) / executeFFprobeCommand(args)
\* up to the point where the tool waits: spawn throws, or the process is
\* started (ok) or fails to start (~ok) and the timer is armed.
AwaitRunner(c, kind, args, ok) ==
  IF SpawnThrows(args)
  THEN Catch(c, JsError(<<"The argument 'args' must be a string without null bytes">>))
  ELSE [c EXCEPT !.phase = "awaiting",
                 !.runs = Append(@, NewInvocation(kind, <<>>, ok)),
                 !.spawns = Append(@,
                   SpawnCall(kind, args,
                             IF kind = "ffmpeg" THEN FFmpegSpawnOptions(Undefined)
                             ELSE FFprobeSpawnOptions))]

\* trim-video
TrimArgs(context) ==
  <<Lit("-i"), Lit(context.inputFilename), Lit("-ss"), Lit(context.start),
    Lit("-to"), Lit(context.end), Lit("-c"), Lit("copy"),
    <<"trimmed_", context.inputFilename>>>>

TrimEnvelope(result, outputFilename) ==
  [success |-> result.success,
   message |-> IF result.success THEN "Video trimmed successfully"
               ELSE "Failed to trim video",
   output |-> Str(result.output),
   outputFile |-> IF result.success THEN Str(outputFilename) ELSE Undefined,
   error |-> result.error]

\* analyze-media
AnalyzeArgs(context) ==
  <<Lit("-v"), Lit("quiet"), Lit("-print_format"), Lit("json"),
    Lit("-show_format"), Lit("-show_streams"), Lit(context.inputFilename)>>

AnalyzeEnvelope(result) ==
  IF result.success
  THEN [success |-> TRUE, message |-> "Media analysis completed",
        analysis |-> parseFFprobeOutput(result.output),
        output |-> Str(result.output)]
  ELSE [success |-> FALSE, message |-> "Failed to analyze media",
        error |-> result.error]

\* extract-bitstream
IsStreamType(streamType) == streamType \in {"video", "audio", "subtitle"}

StreamMap(streamType) ==
  CASE streamType = "video" -> "0:v:0"
    [] streamType = "audio" -> "0:a:0"
    [] OTHER -> "0:s:0"

ExtractArgs(context, outputFilename) ==
  <<Lit("-i"), Lit(context.inputFilename), Lit("-map"),
    Lit(StreamMap(context.streamType)), Lit("-c"), Lit("copy"),
    outputFilename>>

InvalidStreamType ==
  [success |-> FALSE, message |-> "Invalid stream type",
   error |-> Str(<<"Stream type must be video, audio, or subtitle">>)]

ExtractEnvelope(result, outputFilename) ==
  [success |-> result.success,
   message |-> IF result.success THEN "Bitstream extracted successfully"
               ELSE "Failed to extract bitstream",
   output |-> Str(result.output),
   outputFile |-> IF result.success THEN Str(outputFilename) ELSE Undefined,
   error |-> result.error]

\* batch-process
IsOperation(operation) == operation \in {"convert", "resize"}

BatchArgs(operation, filename) ==
  IF operation = "convert"
  THEN <<Lit("-i"), Lit(filename), Lit("-c:v"), Lit("libx264"),
         Lit("-preset"), Lit("medium"), <<"converted_", filename>>>>
  ELSE <<Lit("-i"), Lit(filename), Lit("-vf"), Lit("scale=1280:720"),
         <<"resized_", filename>>>>

UnknownOperation ==
  [success |-> FALSE, output |-> <<>>, error |-> Str(<<"Unknown operation">>)]

\* results.push({ filename, success, output, error })
BatchPush(c, result) ==
  [c EXCEPT !.results =
     Append(@, [filename |-> c.context.filenames[Len(c.results) + 1],
                success |-> result.success,
                output |-> Str(result.output),
                error |-> result.error])]

BatchEnvelope(results) ==
  [success |-> TRUE, message |-> "Batch processing completed",
   results |-> results]

\* for (const filename of filenames) { ... }, from the file after the last
\* pushed entry up to the next await or the return after the loop.
RECURSIVE BatchLoop(_, _)
BatchLoop(c, ok) ==
  IF Len(c.results) = Len(c.context.filenames)
  THEN Return(c, BatchEnvelope(c.results))
  ELSE IF IsOperation(c.context.operation)
       THEN AwaitRunner(c, "ffmpeg",
                        BatchArgs(c.context.operation,
                                  c.context.filenames[Len(c.results) + 1]), ok)
       ELSE BatchLoop(BatchPush(c, UnknownOperation), ok)

\* execute({ context }) up to its first await or its return.
Execute(toolId, context, ok) ==
  LET c == [NoCall EXCEPT !.tool = toolId, !.context = context] IN
  CASE toolId = "trim-video" ->
         AwaitRunner([c EXCEPT !.outputFilename =
                                 <<"trimmed_", context.inputFilename>>],
                     "ffmpeg", TrimArgs(context), ok)
    [] toolId = "analyze-media" ->
         AwaitRunner(c, "ffprobe", AnalyzeArgs(context), ok)
    [] toolId = "extract-bitstream" ->
         LET outputFilename ==
               <<"extracted_", context.streamType, "_", context.inputFilename>>
         IN IF IsStreamType(context.streamType)
            THEN AwaitRunner([c EXCEPT !.outputFilename = outputFilename],
                             "ffmpeg", ExtractArgs(context, outputFilename), ok)
            ELSE Return([c EXCEPT !.outputFilename = outputFilename],
                        InvalidStreamType)
    [] OTHER -> BatchLoop(c, ok)

\* execute after the awaited runner has resolved, up to the next await or
\* the return.
Continue(c, ok) ==
  LET result == c.runs[Len(c.runs)].result IN
  CASE c.tool = "trim-video" ->
         Return(c, TrimEnvelope(result, c.outputFilename))
    [] c.tool = "analyze-media" -> Return(c, AnalyzeEnvelope(result))
    [] c.tool = "extract-bitstream" ->
         Return(c, ExtractEnvelope(result, c.outputFilename))
    [] OTHER -> BatchLoop(BatchPush(c, result), ok)

\* The inputs of the tools.
Contexts(toolId) ==
  CASE toolId = "trim-video" ->
         {[inputFilename |-> f, start |-> "00:00:01", end |-> "00:00:05"] :
            f \in OpFilenames}
    [] toolId = "analyze-media" -> {[inputFilename |-> f] : f \in OpFilenames}
    [] toolId = "extract-bitstream" ->
         {[inputFilename |-> f, streamType |-> t] :
            f \in OpFilenames, t \in StreamTypes}
    [] OTHER ->
         {[filenames |-> fs, operation |-> o] :
            fs \in FileLists(MaxFiles), o \in Operations}

ArgvTools ==
  {"trim-video", "analyze-media", "extract-bitstream", "batch-process"}

\* A client calls a tool.
OpCall(toolId, context, ok) ==
  /\ call.phase = "idle"
  /\ call' = Execute(toolId, context, ok)
  /\ UNCHANGED <<runnerVars, captureVars, toolVars, utilVars, twin>>

\* A callback of run k has run and left the closure as r; when that
\* resolved the promise the tool is waiting for, the tool goes on at once.
OpStep(k, r, ok) ==
  LET c == [call EXCEPT !.runs[k] = r] IN
  /\ call' = IF /\ call.phase = "awaiting"
                /\ k = Len(call.runs)
                /\ r.settled /\ ~call.runs[k].settled
             THEN Continue(c, ok)
             ELSE c
  /\ UNCHANGED <<runnerVars, captureVars, toolVars, utilVars, twin>>

\* The choice of ok matters only when the step starts another process.
OpEvent(k, r) ==
  LET startsNext == /\ call.phase = "awaiting" /\ k = Len(call.runs)
                    /\ r.settled /\ ~call.runs[k].settled
                    /\ call.tool = "batch-process"
                    /\ Len(call.results) + 1 < Len(call.context.filenames)
  IN \E ok \in BOOLEAN : /\ (~ok => startsNext)
                         /\ OpStep(k, r, ok)

OpData(k) ==
  /\ call.runs[k].proc = "running"
  /\ Len(call.runs[k].stdout) + Len(call.runs[k].stderr)
       < MaxOutput * Len(OpChunk)
  /\ \/ OpEvent(k, AfterStdout(call.runs[k], OpChunk))
     \/ OpEvent(k, AfterStderr(call.runs[k], OpChunk))

OpClose(k) ==
  /\ call.runs[k].proc = "running"
  /\ \E t \in Terminations : OpEvent(k, AfterClose(call.runs[k], t))

OpError(k) ==
  /\ call.runs[k].proc = "spawnfail"
  /\ \E m \in SpawnErrors(Executable(call.runs[k].kind)) :
       OpEvent(k, AfterError(call.runs[k], m))

OpCloseOfFailedSpawn(k) ==
  /\ call.runs[k].proc = "errored"
  /\ \E code \in FailedSpawnCodes :
       OpEvent(k, AfterCloseOfFailedSpawn(call.runs[k], code))

OpTimer(k) ==
  /\ call.runs[k].timer = "armed"
  /\ call.runs[k].proc # "spawnfail"
  /\ OpEvent(k, AfterTimeout(call.runs[k]))

\* --------------------------------------------------------- specifications
Init ==
  /\ inv = [i \in InvIds |-> NoInvocation]
  /\ captureProcess = Null
  /\ captureOutputFile = Null
  /\ children = <<>>
  /\ history = <<>>
  /\ tool = IdleTool
  /\ arrivals = [i \in InvIds |-> <<>>]
  /\ probe = NoProbe
  /\ upload = NoUpload
  /\ twin = NoTwin
  /\ call = NoCall

\* The runners, called directly.
Next == \E i \in InvIds : CallRunner(i) \/ RunnerEvent(i)

Spec == Init /\ [][Next]_vars

\* One runner invocation at a time, with fairness: a timer that was armed
\* is never cleared and its callback runs; the next-tick callback that emits
\* the error event of a failed spawn runs.
OneNext == CallRunner(1) \/ RunnerEvent(1)

FairSpec ==
  /\ Init
  /\ [][OneNext]_vars
  /\ WF_vars(TimerFire(1))
  /\ WF_vars(\E m \in SpawnErrors(Executable(inv[1].kind)) : SpawnError(1, m))

\* One runner invocation at a time, its data events recorded.
StreamNext == CallRunner(1) \/ RecordedEvent(1)

StreamSpec == Init /\ [][StreamNext]_vars

\* One call of parseFFprobeOutput, on any of the texts.
ParseInit ==
  /\ inv = [i \in InvIds |-> NoInvocation]
  /\ captureProcess = Null
  /\ captureOutputFile = Null
  /\ children = <<>>
  /\ history = <<>>
  /\ tool = IdleTool
  /\ arrivals = [i \in InvIds |-> <<>>]
  /\ probe \in {[NoProbe EXCEPT !.output = t] : t \in ProbeTexts(MaxLines)}
  /\ upload = NoUpload
  /\ twin = NoTwin
  /\ call = NoCall

ParseNext == ParseProbe

ParseSpec == ParseInit /\ [][ParseNext]_vars

\* A file name sanitized again and again.
SanitizeInit ==
  /\ inv = [i \in InvIds |-> NoInvocation]
  /\ captureProcess = Null
  /\ captureOutputFile = Null
  /\ children = <<>>
  /\ history = <<>>
  /\ tool = IdleTool
  /\ arrivals = [i \in InvIds |-> <<>>]
  /\ probe = NoProbe
  /\ upload \in {[NoUpload EXCEPT !.filename = f] : f \in Names(MaxNameLen)}
  /\ twin = NoTwin
  /\ call = NoCall

SanitizeNext == SanitizeUpload

SanitizeSpec == SanitizeInit /\ [][SanitizeNext]_vars

\* The two argv runners, called with the same arguments and given the same
\* events.
TwinNext ==
  \/ \E a \in ArgVectors, w \in WorkingDirs, ok \in BOOLEAN : TwinCall(a, w, ok)
  \/ TwinData
  \/ TwinClose
  \/ TwinError
  \/ TwinCloseOfFailedSpawn
  \/ TwinTimer

TwinSpec == Init /\ [][TwinNext]_vars

\* The argv tools: one call, the processes it starts and their timers.
OpNext ==
  \/ \E t \in ArgvTools : \E x \in Contexts(t), ok \in BOOLEAN : OpCall(t, x, ok)
  \/ \E k \in 1..Len(call.runs) : OpData(k)
  \/ \E k \in 1..Len(call.runs) : OpClose(k)
  \/ \E k \in 1..Len(call.runs) : OpError(k)
  \/ \E k \in 1..Len(call.runs) : OpCloseOfFailedSpawn(k)
  \/ \E k \in 1..Len(call.runs) : OpTimer(k)

OpSpec == Init /\ [][OpNext]_vars

\* The capture session.
CaptureNext ==
  \/ \E c \in CaptureCommands, f \in OutputFiles : Start(c, f)
  \/ Stop
  \/ \E pid \in DOMAIN children : CaptureExit(pid)

CaptureSpec == Init /\ [][CaptureNext]_vars

\* One call of the execute-ffmpeg-command tool, and the shell runner under
\* it.
ToolNext ==
  \/ \E c \in ToolCommands, o \in ToolOutputFiles, i \in InvIds,
        ok \in BOOLEAN : ToolExecute(c, o, i, ok)
  \/ ToolReturn
  \/ \E i \in InvIds : RunnerEvent(i)

ToolSpec == Init /\ [][ToolNext]_vars

\* ------------------------------------------------------------------ claims
Invoked(i) == inv[i].kind # "none"

\* C1: every runner invocation resolves at most once per promise: the
\* promise is settled exactly when some racing event (close, error, timer)
\* has called resolve, the result delivered is the argument of the first of
\* these calls, and the later calls leave it as it is.
C1_FirstEventWins ==
  \A i \in InvIds :
    /\ inv[i].settled <=> inv[i].resolveCalls > 0
    /\ inv[i].settled => inv[i].result = inv[i].firstResult
    /\ ~inv[i].settled => inv[i].result = Pending

\* A late close after the timer's kill: a second resolve call, whose
\* argument differs from the delivered timeout result.
C1_Witness ==
  \E i \in InvIds :
    /\ inv[i].firstEvent = "timer"
    /\ inv[i].proc = "closed"
    /\ inv[i].resolveCalls = 2
    /\ inv[i].stdout # <<>>

\* C2: when the timer is the first of the racing events, a kill has been
\* sent and the call has resolved with exactly success = false, output = "",
\* error = "Command timed out"; every armed timer eventually fires and every
\* invocation is eventually resolved.
C2_TimeoutResolves ==
  /\ [](\A i \in InvIds :
          inv[i].firstEvent = "timer" =>
            /\ inv[i].killed
            /\ inv[i].settled
            /\ inv[i].result = [success |-> FALSE, output |-> <<>>,
                                error |-> Str(<<"Command timed out">>)])
  /\ \A i \in InvIds : (inv[i].timer = "armed") ~> (inv[i].timer = "fired")
  /\ \A i \in InvIds : (Invoked(i) /\ ~inv[i].settled) ~> inv[i].settled

\* The timer fired on a process that is still running and had produced
\* output, which the timeout result discards.
C2_Witness ==
  \E i \in InvIds :
    /\ inv[i].firstEvent = "timer"
    /\ inv[i].proc = "running"
    /\ inv[i].stdout \o inv[i].stderr # <<>>
    /\ inv[i].result.output = <<>>

\* A command line that begins, after leading whitespace, with the name of
\* the transcoding engine or of the inspection tool.
AllowListed(c) ==
  \E k \in 0..Len(c), name \in {FFMPEG, FFPROBE} :
    /\ \A j \in 1..k : c[j] \in WhiteSpace
    /\ Len(c) >= k + Len(name)
    /\ SubSeq(c, k + 1, k + Len(name)) = name

\* C3: a call of the tool with a command that, once its surrounding
\* whitespace is dropped, begins with neither ffmpeg nor ffprobe returns the
\* validation failure and leaves every runner invocation as it was; and a
\* process is spawned only by a call of the tool whose command passes.
C3_AllowList ==
  [][/\ (tool.phase = "idle" /\ tool'.phase # "idle"
         /\ ~AllowListed(tool'.command)) =>
          /\ tool'.phase = "returned"
          /\ tool'.ret.success = FALSE
          /\ tool'.ret.error = Str(<<"Invalid command">>)
          /\ inv' = inv
      /\ \A i \in InvIds :
           (inv'[i] # inv[i] /\ Finished(inv[i])) =>
             /\ tool.phase = "idle"
             /\ tool'.phase = "awaiting"
             /\ tool'.slot = i
             /\ AllowListed(tool'.command)]_vars

\* A command that holds the engine's name, but not at its start, was
\* rejected and nothing was spawned.
C3_Witness ==
  /\ tool.phase = "returned"
  /\ tool.command = <<"x">> \o FFMPEG
  /\ tool.ret.success = FALSE
  /\ \A i \in InvIds : ~Invoked(i)

\* C4: when a start follows a start with no stop in between, kill() has
\* been called on the process of the first; and after a start, the session
\* is Running with the process, the command and the output file of that
\* start, the last one executed.
C4_LastStartWins ==
  \A k \in 1..Len(history) :
    history[k].op = "start" =>
      /\ (k < Len(history) /\ history[k + 1].op = "start") =>
           children[history[k].pid].killed
      /\ k = Len(history) =>
           /\ captureProcess = Handle(history[k].pid)
           /\ captureOutputFile = Str(history[k].outputFile)
           /\ children[history[k].pid].command = history[k].command
           /\ ~children[history[k].pid].killed

\* start(cmd1, "a.mp4") directly followed by start(cmd2, "b.mp4").
C4_Witness ==
  /\ Len(history) = 2
  /\ history[1].op = "start" /\ history[1].outputFile = <<"a.mp4">>
  /\ history[2].op = "start" /\ history[2].outputFile = <<"b.mp4">>
  /\ history[1].command # history[2].command

\* C5: the session holds at most one handle, the handle of a process it
\* spawned, and every process spawned by start on which kill() has not been
\* called is the one the session holds: there is at most one.
C5_AtMostOneCapture ==
  /\ captureProcess = Null
     \/ \E pid \in DOMAIN children : captureProcess = Handle(pid)
  /\ \A pid \in DOMAIN children :
       ~children[pid].killed => captureProcess = Handle(pid)
  /\ Cardinality({pid \in DOMAIN children : ~children[pid].killed}) <= 1

\* Three processes were spawned, one was superseded, one stopped, and the
\* third is the session's.
C5_Witness ==
  /\ Len(children) = 3
  /\ \E k \in DOMAIN history : history[k].op = "stop" /\ history[k].wasRunning
  /\ captureProcess = Handle(3)
  /\ children[1].killed /\ children[2].killed /\ ~children[3].killed

\* The last start before call k of the history.
LastStart(k) ==
  CHOOSE j \in 1..(k - 1) :
    /\ history[j].op = "start"
    /\ \A m \in (j + 1)..(k - 1) : history[m].op # "start"

\* C6: a stop called while the session is Running returns "stopped" with
\* the outputFile of the most recent start as filename, whatever string it
\* is, has called kill() on the process, and leaves the handle and the
\* output file cleared.
C6_StopReturnsOutputFile ==
  \A k \in 1..Len(history) :
    (history[k].op = "stop" /\ history[k].wasRunning) =>
      /\ history[k].ret.status = "stopped"
      /\ history[k].ret.filename = Str(history[LastStart(k)].outputFile)
      /\ children[history[LastStart(k)].pid].killed
      /\ k = Len(history) => captureProcess = Null /\ captureOutputFile = Null

\* C7: a stop called while no session is active returns "not_running" with
\* no filename and changes neither the handle, the output file nor any
\* process (no kill); so the second of two consecutive stops returns
\* "not_running".
C7_StopWhenNotRunning ==
  /\ [][(/\ Len(history') = Len(history) + 1
         /\ history'[Len(history')].op = "stop"
         /\ captureProcess = Null) =>
          /\ history'[Len(history')].ret =
               [status |-> "not_running", filename |-> Undefined]
          /\ UNCHANGED <<captureProcess, captureOutputFile, children>>]_vars
  /\ [](\A k \in 2..Len(history) :
          (history[k - 1].op = "stop" /\ history[k].op = "stop") =>
            history[k].ret.status = "not_running")

\* start, stop (stopped), stop (not_running), stop (not_running).
C7_Witness ==
  /\ Len(history) = 4
  /\ history[1].op = "start"
  /\ history[2].op = "stop" /\ history[2].ret.status = "stopped"
  /\ history[3].op = "stop" /\ history[3].ret.status = "not_running"
  /\ history[4].op = "stop" /\ history[4].ret.status = "not_running"

\* A decimal numeral, as String(n) writes a number.
DigitChars == {"0", "1", "2", "3", "4", "5", "6", "7", "8", "9"}

IsNumeral(s) ==
  /\ s # <<>>
  /\ \A k \in 1..Len(s) : s[k] \in DigitChars \/ (k = 1 /\ s[k] = "-" /\ Len(s) > 1)

IsExitCodeMessage(e) ==
  /\ e.tag = "string"
  /\ Len(e.val) >= 1
  /\ e.val[1] = "Process exited with code "

ArgvKinds == {"ffmpeg", "ffprobe"}

\* C8: when the process of an argv runner ended before the timer fired, the
\* result is success with the captured text and no error if the exit code
\* is 0, and otherwise failure with the captured text and the error
\* "Process exited with code N", N a numeral, however the process ended.
C8_ExitCodeInError ==
  \A i \in InvIds :
    (inv[i].kind \in ArgvKinds /\ inv[i].spawned /\ inv[i].firstEvent = "close") =>
      IF inv[i].term.code = Num(0)
      THEN inv[i].result = [success |-> TRUE,
                            output |-> inv[i].stdout \o inv[i].stderr,
                            error |-> Undefined]
      ELSE /\ inv[i].result.success = FALSE
           /\ inv[i].result.output = inv[i].stdout \o inv[i].stderr
           /\ IsExitCodeMessage(inv[i].result.error)
           /\ IsNumeral(Tail(inv[i].result.error.val))

\* C9: once the error event of a failed spawn of an argv runner has been
\* delivered, the call has resolved with success = false and the platform's
\* error text as error, not the exit-code message, also after the close
\* event that follows.
C9_SpawnFailure ==
  \A i \in InvIds :
    (inv[i].kind \in ArgvKinds /\ ~inv[i].spawned /\ inv[i].proc # "spawnfail") =>
      /\ inv[i].settled
      /\ inv[i].result.success = FALSE
      /\ inv[i].result.error \in
           {Str(m) : m \in SpawnErrors(Executable(inv[i].kind))}
      /\ ~IsExitCodeMessage(inv[i].result.error)

\* The spawn of ffmpeg failed, and the close event has followed the error
\* event with a second call of resolve.
C9_Witness ==
  \E i \in InvIds :
    /\ inv[i].kind = "ffmpeg" /\ ~inv[i].spawned
    /\ inv[i].proc = "closed"
    /\ inv[i].resolveCalls >= 2
    /\ inv[i].firstEvent = "error"

\* C10: when the command of the shell runner completed before the timer
\* fired, exit status zero gives success = true, output = stdout followed by
\* stderr and no error; any other end, and a spawn failure, give
\* success = false, output = stdout followed by stderr as captured, and a
\* non-empty error.
C10_ShellResult ==
  \A i \in InvIds :
    (inv[i].kind = "shell" /\ inv[i].firstEvent \in {"close", "error"}) =>
      IF inv[i].spawned /\ inv[i].term = [code |-> Num(0), signal |-> Null]
      THEN inv[i].result = [success |-> TRUE,
                            output |-> inv[i].stdout \o inv[i].stderr,
                            error |-> Undefined]
      ELSE /\ inv[i].result.success = FALSE
           /\ inv[i].result.output = inv[i].stdout \o inv[i].stderr
           /\ inv[i].result.error.tag = "string"
           /\ inv[i].result.error.val # <<>>

\* The shell command wrote to both streams, different text, and exited
\* with status 0.
C10_Witness ==
  \E i \in InvIds :
    /\ inv[i].kind = "shell" /\ inv[i].firstEvent = "close"
    /\ inv[i].term.code = Num(0)
    /\ inv[i].stdout # <<>> /\ inv[i].stderr # <<>>
    /\ inv[i].stdout # inv[i].stderr
    /\ inv[i].result.success

\* C11: the result of every runner, whichever event produced it, has no
\* error when success is true and a non-empty error text when success is
\* false.
C11_SuccessIffNoError ==
  \A i \in InvIds :
    inv[i].settled =>
      IF inv[i].result.success
      THEN inv[i].result.error = Undefined
      ELSE /\ inv[i].result.error.tag = "string"
           /\ inv[i].result.error.val # <<>>

\* The inspection tool ended with a non-zero exit code before its timer
\* fired.
C11_Witness ==
  \E i \in InvIds :
    /\ inv[i].kind = "ffprobe" /\ inv[i].spawned
    /\ inv[i].firstEvent = "close"
    /\ inv[i].term.code = Num(1)
    /\ ~inv[i].result.success

\* The text of the chunks of one stream, in the order they arrived.
RECURSIVE StreamText(_, _)
StreamText(arr, stream) ==
  IF arr = <<>> THEN <<>>
  ELSE (IF Head(arr).stream = stream THEN Head(arr).data ELSE <<>>)
       \o StreamText(Tail(arr), stream)

\* The text of all the chunks, in the order they arrived.
RECURSIVE ArrivalText(_)
ArrivalText(arr) ==
  IF arr = <<>> THEN <<>> ELSE Head(arr).data \o ArrivalText(Tail(arr))

\* The close event of a spawned argv runner settled the call.
ClosedFirst(i) ==
  inv[i].kind \in ArgvKinds /\ inv[i].spawned /\ inv[i].firstEvent = "close"

\* C12 (as amended): the output of an argv runner whose process ended before
\* the timer fired is the stdout chunks in arrival order followed by the
\* stderr chunks in arrival order, however the two streams interleaved.
C12_StdoutThenStderr ==
  \A i \in InvIds :
    ClosedFirst(i) =>
      inv[i].result.output = StreamText(arrivals[i], "stdout")
                             \o StreamText(arrivals[i], "stderr")

\* C12 (as stated): the output of an argv runner is the concatenation of all
\* the chunks of both streams in the order they arrived.
C12_ArrivalOrder ==
  \A i \in InvIds :
    ClosedFirst(i) => inv[i].result.output = ArrivalText(arrivals[i])

\* A stderr chunk arrived before a stdout chunk with different text, and
\* the process then ended.
C12_Witness ==
  \E i \in InvIds :
    /\ ClosedFirst(i)
    /\ Len(arrivals[i]) = 2
    /\ arrivals[i][1].stream = "stderr"
    /\ arrivals[i][2].stream = "stdout"
    /\ arrivals[i][1].data # arrivals[i][2].data

\* s is t with some elements left out.
RECURSIVE IsSubsequence(_, _)
IsSubsequence(s, t) ==
  IF s = <<>> THEN TRUE
  ELSE IF t = <<>> THEN FALSE
  ELSE IF Head(s) = Head(t) THEN IsSubsequence(Tail(s), Tail(t))
  ELSE IsSubsequence(s, Tail(t))

\* C13: within one argv invocation each buffer holds the chunks of its
\* stream in arrival order, each once; and the output delivered at close
\* holds the text of each stream in that order and nothing else, so no chunk
\* that arrived before close is lost or duplicated.
C13_StreamOrderKept ==
  \A i \in InvIds :
    inv[i].kind \in ArgvKinds =>
      /\ inv[i].stdout = StreamText(arrivals[i], "stdout")
      /\ inv[i].stderr = StreamText(arrivals[i], "stderr")
      /\ ClosedFirst(i) =>
           /\ IsSubsequence(inv[i].stdout, inv[i].result.output)
           /\ IsSubsequence(inv[i].stderr, inv[i].result.output)
           /\ Len(inv[i].result.output) = Len(ArrivalText(arrivals[i]))

\* Two different chunks arrived on the same stream of an argv runner, and
\* the process then ended.
C13_Witness ==
  \E i \in InvIds :
    /\ ClosedFirst(i)
    /\ Len(arrivals[i]) = 2
    /\ arrivals[i][1].stream = arrivals[i][2].stream
    /\ arrivals[i][1].data # arrivals[i][2].data

\* ------------------------------------------------- claims on the parser
\* The input of the parser as the sequence of its lines.
InputLines == Split(probe.output, "\n")

HasEquals(l) == \E k \in 1..Len(l) : l[k] = "="

FirstEquals(l) ==
  CHOOSE k \in 1..Len(l) : l[k] = "=" /\ \A j \in 1..(k - 1) : l[j] # "="

TextBefore(l) == SubSeq(l, 1, FirstEquals(l) - 1)
TextAfter(l) == SubSeq(l, FirstEquals(l) + 1, Len(l))

\* The entry a key=value line stands for: the key before its first '=', the
\* value all the text after it.
Entry(l) == [key |-> TextBefore(l), value |-> TextAfter(l)]

Markers == {FORMAT_MARKER, STREAM_MARKER}

\* A line that begins with a marker and goes on after it.
BeginsWithMarker(l) ==
  \E m \in Markers : Len(l) > Len(m) /\ SubSeq(l, 1, Len(m)) = m

NoLongMarker(lines) == \A k \in 1..Len(lines) : ~BeginsWithMarker(lines[k])

\* A key=value line with a key, and no blank in it.
IsPlainKeyValue(l) ==
  /\ HasEquals(l)
  /\ l \notin Markers /\ ~BeginsWithMarker(l)
  /\ TextBefore(l) # <<>>
  /\ \A k \in 1..Len(l) : l[k] \notin WhiteSpace

\* The text without the empty line a final newline leaves.
Body(lines) ==
  IF Len(lines) > 1 /\ lines[Len(lines)] = <<>>
  THEN SubSeq(lines, 1, Len(lines) - 1) ELSE lines

\* One format section, then stream sections of at least one key=value line
\* each, the keys of a section distinct.
WellFormed(b) ==
  /\ Len(b) >= 1 /\ b[1] = FORMAT_MARKER
  /\ \A k \in 2..Len(b) : b[k] = STREAM_MARKER \/ IsPlainKeyValue(b[k])
  /\ \A k \in 2..Len(b) :
       b[k] = STREAM_MARKER => k < Len(b) /\ IsPlainKeyValue(b[k + 1])
  /\ \A j, k \in 2..Len(b) :
       (j < k /\ \A m \in j..k : b[m] # STREAM_MARKER) =>
         TextBefore(b[j]) # TextBefore(b[k])

\* The lines of the section that the marker at position k opens.
SectionLines(b, k) ==
  LET ends == {e \in (k + 1)..Len(b) : b[e] \in Markers}
      e == IF ends = {} THEN Len(b) + 1
           ELSE CHOOSE e \in ends : \A f \in ends : e <= f
  IN SubSeq(b, k + 1, e - 1)

Entries(ls) == [j \in 1..Len(ls) |-> Entry(ls[j])]

StreamMarkerCount(b) == Cardinality({k \in 1..Len(b) : b[k] = STREAM_MARKER})

\* The position of the i-th [STREAM] line.
NthStream(b, i) ==
  CHOOSE k \in 1..Len(b) :
    b[k] = STREAM_MARKER /\ StreamMarkerCount(SubSeq(b, 1, k)) = i

\* C14: for a well-formed text (the format section with F key=value lines
\* of distinct keys, then N stream sections of at least one key=value line
\* each) the parser returns the format map with exactly these F entries and
\* N stream records, the i-th holding exactly the entries of the i-th
\* [STREAM] section, in input order.
C14_WellFormedText ==
  (probe.called /\ WellFormed(Body(InputLines))) =>
    LET b == Body(InputLines) IN
    probe.result =
      [format |-> Entries(SectionLines(b, 1)),
       streams |-> [i \in 1..StreamMarkerCount(b) |->
                      Entries(SectionLines(b, NthStream(b, i)))]]

\* The entries of object obj.
HasEntry(obj, key, value) ==
  \E k \in 1..Len(obj) : obj[k] = [key |-> key, value |-> value]

\* The last marker line is a [STREAM] line.
EndsInStream(lines) ==
  \E k \in 1..Len(lines) :
    /\ lines[k] = STREAM_MARKER
    /\ \A j \in (k + 1)..Len(lines) : lines[j] # FORMAT_MARKER

\* C15: a key=value line is split on its first '=' only: the key is the
\* text before it and the value all the text after it, further '=' signs
\* included (blanks around each dropped), and the pair goes to the active
\* section, the stream record in progress or else the format map.
C15_SplitOnFirstEquals ==
  LET lines == InputLines
      l == lines[Len(lines)]
  IN (/\ probe.called
      /\ NoLongMarker(lines)
      /\ l \notin Markers /\ HasEquals(l)) =>
       IF EndsInStream(lines)
       THEN /\ probe.result.streams # <<>>
            /\ HasEntry(probe.result.streams[Len(probe.result.streams)],
                        Trim(TextBefore(l)), Trim(TextAfter(l)))
       ELSE HasEntry(probe.result.format,
                     Trim(TextBefore(l)), Trim(TextAfter(l)))

\* C16: every stream record begun by a [STREAM] line is in the output: the
\* number of records of streams is the number of [STREAM] lines of the
\* input, whether or not a section holds a key=value line.
C16_EveryStreamFlushed ==
  (probe.called /\ NoLongMarker(InputLines)) =>
    Len(probe.result.streams) = StreamMarkerCount(InputLines)

RemoveAt(lines, k) ==
  SubSeq(lines, 1, k - 1) \o SubSeq(lines, k + 1, Len(lines))

ReplaceAt(lines, k, l) == [lines EXCEPT ![k] = l]

BeginsWith(l, m) == Len(l) >= Len(m) /\ SubSeq(l, 1, Len(m)) = m

\* C17 (as amended): a line acts as a section marker when it begins with
\* the marker (putting the marker in its place leaves the result as it is),
\* and every line that neither begins with a marker nor contains '=' is
\* ignored: the result is that of the text without the line, wherever the
\* line stands.
C17_MarkerIsPrefix ==
  probe.called =>
    \A k \in 1..Len(InputLines) :
      LET l == InputLines[k] IN
      /\ \A m \in Markers :
           BeginsWith(l, m) =>
             parseFFprobeOutput(Join(ReplaceAt(InputLines, k, m)))
               = probe.result
      /\ ((\A m \in Markers : ~BeginsWith(l, m)) /\ ~HasEquals(l)) =>
           parseFFprobeOutput(Join(RemoveAt(InputLines, k))) = probe.result

\* C17 (as stated): a line acts as a marker only when it is equal to one,
\* and every line that is neither equal to a marker nor contains '=' is
\* ignored: the result is that of the text without the line.
C17_MarkerIsWholeLine ==
  probe.called =>
    \A k \in 1..Len(InputLines) :
      (InputLines[k] \notin Markers /\ ~HasEquals(InputLines[k])) =>
        parseFFprobeOutput(Join(RemoveAt(InputLines, k))) = probe.result

\* A line that begins with the stream marker and goes on, then a line that
\* is no marker and holds no '=', then a key=value line, which went to the
\* stream record the first line opened.
C17_Witness ==
  /\ probe.called
  /\ InputLines = <<STREAM_MARKER \o <<"x">>, <<"x">>, <<"a", "=", "1">>>>
  /\ probe.result = [format |-> <<>>,
                     streams |-> <<<<[key |-> <<"a">>, value |-> <<"1">>]>>>>]

\* An object: properties of distinct keys.
IsObject(obj) ==
  /\ DOMAIN obj = 1..Len(obj)
  /\ \A k \in 1..Len(obj) : DOMAIN obj[k] = {"key", "value"}
  /\ \A j, k \in 1..Len(obj) : obj[j].key = obj[k].key => j = k

\* C18: the parser is total: for every text, malformed and truncated ones
\* included, the call returns, and what it returns is a record with a
\* format map and a sequence of stream records; no statement of the try
\* block throws on a string, so the error record is not what it returns.
C18_ParseTotal ==
  probe.called =>
    /\ DOMAIN probe.result = {"format", "streams"}
    /\ IsObject(probe.result.format)
    /\ \A k \in 1..Len(probe.result.streams) :
         IsObject(probe.result.streams[k])

\* A line with an empty key and an empty value in a stream section, a
\* [FORMAT] marker after it, and a key=value line cut short after it.
C18_Witness ==
  /\ probe.called
  /\ InputLines = <<STREAM_MARKER, <<" ", "=", " ">>, FORMAT_MARKER,
                    <<"b", "=", "2", "=", "3">>>>
  /\ probe.result =
       [format |-> <<[key |-> <<"b">>, value |-> <<"2">>]>>,
        streams |-> <<<<[key |-> <<>>, value |-> <<>>]>>>>]

\* ---------------------------------------------- claims on sanitizeFilename
\* C19: sanitizing is idempotent, sanitize(sanitize(x)) = sanitize(x); the
\* empty name and a name without letter, digit, dot or hyphen give the
\* fixed default name; and the default name sanitized is the default name.
C19_SanitizeIdempotent ==
  LET x == upload.filename
      r == upload.sanitized
  IN /\ Len(r) >= 2 => r[2] = r[1]
     /\ (Len(r) >= 1 /\ \A k \in 1..Len(x) : x[k] \in {"_", "!"}) =>
          r[1] = <<"u", "p", "l", "o", "a", "d", "e", "d", "_",
                   "f", "i", "l", "e">>
     /\ \A k \in 2..Len(r) : r[k - 1] = DefaultName => r[k] = DefaultName

\* A name that every step of the sanitizer changes, sanitized twice.
C19_Witness ==
  /\ upload.filename = <<"_", "B", "!", "!">>
  /\ upload.sanitized = <<<<"b">>, <<"b">>>>

\* ------------------------------------------- claims on the overwrite flag
\* The number of whitespace characters command c begins with.
LeadingBlanks(c) ==
  CHOOSE k \in 0..Len(c) :
    /\ \A j \in 1..k : c[j] \in WhiteSpace
    /\ k < Len(c) => c[k + 1] \notin WhiteSpace

\* After its leading whitespace, c is the word `name` and then whitespace.
Invokes(c, name) ==
  LET k == LeadingBlanks(c) IN
  /\ Len(c) > k + Len(name)
  /\ SubSeq(c, k + 1, k + Len(name)) = name
  /\ c[k + Len(name) + 1] \in WhiteSpace

\* C20: when the tool accepts an ffmpeg command, leading whitespace or not,
\* the command handed to the shell runner is the same command with -y put
\* right after the executable name; an accepted ffprobe command is handed
\* over unchanged.
C20_OverwriteFlagInjected ==
  LET c == tool.command IN
  (tool.phase \in {"awaiting", "returned"} /\ AllowListed(c)) =>
    LET executed == inv[tool.slot].cmd
        k == LeadingBlanks(c)
    IN /\ Invokes(c, FFMPEG) =>
            executed = SubSeq(c, 1, k + Len(FFMPEG))
                       \o <<" ", "-", "y", " ">>
                       \o SubSeq(c, k + Len(FFMPEG) + 2, Len(c))
       /\ Invokes(c, FFPROBE) => executed = c

\* ------------------------------------------ claims on the capture session
\* C26: after any sequence of start and stop calls the handle and the
\* output file of the session are both set or both null; a stop returns
\* "stopped" exactly when the handle was set at the call; and a process
\* that has ended without kill() is still the one the session holds, so
\* that the stop after it returns "stopped".
C26_HandleAndFileTogether ==
  /\ captureProcess = Null <=> captureOutputFile = Null
  /\ \A k \in 1..Len(history) :
       history[k].op = "stop" =>
         /\ history[k].ret.status = "stopped" <=> history[k].wasRunning
         /\ history[k].hadExited => history[k].ret.status = "stopped"
  /\ \A pid \in DOMAIN children :
       (children[pid].exited /\ ~children[pid].killed) =>
         captureProcess = Handle(pid)

\* The capture process ended by itself, and the stop called after that
\* returned "stopped" and cleared the handle and the output file.
C26_Witness ==
  /\ Len(history) = 2
  /\ history[1].op = "start"
  /\ history[2].op = "stop" /\ history[2].hadExited
  /\ history[2].ret.status = "stopped"
  /\ captureProcess = Null /\ captureOutputFile = Null

\* ------------------------------------------------- claims on the timer
\* C24: an invocation completes through one of process exit (or spawn
\* error) and the timer, and the loser has no effect: once the invocation
\* has resolved through the close or the error event, kill() is not called
\* on its process and resolve is not called again by the timer (the only
\* calls are the one that settled it and, for an argv runner whose spawn
\* failed, the one of the close event that follows the error event).
C24_TimerLoserHasNoEffect ==
  \A i \in InvIds :
    inv[i].firstEvent \in {"close", "error"} =>
      /\ ~inv[i].killed
      /\ inv[i].resolveCalls <=
           (IF inv[i].kind \in ArgvKinds /\ ~inv[i].spawned THEN 2 ELSE 1)

\* -------------------------------------- claims on the two argv runners
\* Two results that are the same, but for the name of the executable in
\* the message of a spawn error.
SameResult(a, b) ==
  /\ a.success = b.success
  /\ a.output = b.output
  /\ \/ a.error = b.error
     \/ /\ a.error.tag = "string" /\ b.error.tag = "string"
        /\ Len(a.error.val) = 3 /\ Len(b.error.val) = 3
        /\ a.error.val[1] = b.error.val[1]
        /\ a.error.val[3] = b.error.val[3]

\* C23: the two argv runners differ in the name of the executable only:
\* called with the same argument vector and the same choice of working
\* directory, and given the same process events, they spawn with the same
\* arguments in the same directory and deliver the same result.
C23_SameRunnerButForName ==
  twin.called =>
    /\ twin.ffmpegSpawn.args = twin.ffprobeSpawn.args
    /\ twin.ffmpegSpawn.dir = twin.ffprobeSpawn.dir
    /\ twin.ffmpeg.settled = twin.ffprobe.settled
    /\ SameResult(twin.ffmpeg.result, twin.ffprobe.result)

\* ------------------------------------------------ claims on the argv tools
\* The selector of the call is not one the tool supports.
UnsupportedStreamType ==
  /\ call.tool = "extract-bitstream"
  /\ call.context.streamType \notin {"video", "audio", "subtitle"}
UnsupportedOperation ==
  /\ call.tool = "batch-process"
  /\ call.context.operation \notin {"convert", "resize"}

\* A failure happened during the call: a selector was not supported, spawn
\* threw, or a run resolved with a failure (a process that could not be
\* started, a nonzero exit or a death by signal, a timeout).
OpFailure ==
  \/ UnsupportedStreamType
  \/ UnsupportedOperation
  \/ call.threw
  \/ \E k \in 1..Len(call.runs) :
       call.runs[k].settled /\ ~call.runs[k].result.success

\* The envelope has an error field that says something.
HasError(envelope) == "error" \in DOMAIN envelope /\ Truthy(envelope.error)

\* C21: every tool returns an envelope with a boolean success and a message
\* on every path, and every validation, spawn, execution or timeout failure
\* of the call yields an envelope with success = false and the details in
\* error.
C21_EveryFailureIsAFailedEnvelope ==
  call.phase = "returned" =>
    /\ call.ret.success \in BOOLEAN
    /\ "message" \in DOMAIN call.ret
    /\ OpFailure => (~call.ret.success /\ HasError(call.ret))

\* The return of the call reports a failure: in the envelope, or in the
\* entry of some file.
FailureReported ==
  \/ ~call.ret.success /\ HasError(call.ret)
  \/ /\ "results" \in DOMAIN call.ret
     /\ \E k \in 1..Len(call.ret.results) :
          ~call.ret.results[k].success /\ Truthy(call.ret.results[k].error)

\* C22: a call with an unsupported selector starts no process:
\* extract-bitstream with a stream type other than video, audio, subtitle
\* returns success = false, and batch-process with an operation other than
\* convert, resize starts no process for any file and reports the failure.
C22_UnsupportedSelectorSpawnsNothing ==
  /\ UnsupportedStreamType =>
       /\ call.phase = "returned" /\ ~call.ret.success /\ HasError(call.ret)
       /\ call.spawns = <<>> /\ call.runs = <<>>
  /\ UnsupportedOperation =>
       /\ call.phase = "returned" /\ FailureReported
       /\ call.spawns = <<>> /\ call.runs = <<>>

\* The processes of the call that have been started and have not ended.
RunningProcesses == {k \in 1..Len(call.runs) : call.runs[k].proc = "running"}

\* C25: batch-process handles the files one after another in input order,
\* with at most one process of the batch running at any time; results has
\* one entry per file name, in order, whatever the outcome of each file,
\* and the envelope has success = true when the loop ends without exception.
C25_BatchIsSequential ==
  call.tool = "batch-process" =>
    /\ Cardinality(RunningProcesses) <= 1
    /\ \A k \in 1..Len(call.spawns) :
         /\ call.spawns[k].args[2] = Lit(call.context.filenames[k])
         /\ k < Len(call.runs) => call.runs[k].settled
    /\ \A k \in 1..Len(call.results) :
         /\ call.results[k].filename = call.context.filenames[k]
         /\ IsOperation(call.context.operation) =>
              call.results[k].success = call.runs[k].firstResult.success
    /\ (call.phase = "returned" /\ ~call.threw) =>
         /\ call.ret.success
         /\ call.ret.results = call.results
         /\ Len(call.results) = Len(call.context.filenames)

=============================================================================
